---- MODULE Spec2Model ----
(***************************************************************************)
(* Model of the UniConnect backend (backend/server.mjs and the chat and    *)
(* message routers): token blacklist, REST auth middleware, Socket.IO      *)
(* handshake and presence, and the chat/message pipeline.                  *)
(*                                                                         *)
(* Time is counted in ticks of 24 hours.  Credentials are abstract ids:    *)
(* 1..MaxTokens are the tokens signed by signToken, Forged is a string     *)
(* that was not signed with JWT_SECRET, NoToken is the empty string/null.  *)
(***************************************************************************)
EXTENDS Integers, Sequences, FiniteSets, TLC

\* ---- bounds of the model ----
MaxTime == 2
MaxTokens == 2
MaxSockets == 3
MaxReqs == 3
\* requests whose awaited store operations interleave
MaxConcurrent == 2
\* requests and handshakes followed through the token gates in Spec
MaxGateReqs == 1
MaxGateSockets == 1
MaxGateUsers == 1
\* chat pipeline: stored chats and messages, connections listening
MaxChats == 3
MaxMsgs == 2
MaxChatSockets == 2
\* events a connection is followed through while typing events are relayed
MaxInbox == 2
NumUsers == 3

\* ---- program constants (times in ticks) ----
\* 24 * 60 * 60 seconds, the ttl POST /logout passes to blacklistToken
LogoutTtl == 1
\* page size of GET /messages/:chatId when none is asked for, and its cap
DefaultLimit == 50
LimitCap == 100

Users == 1..NumUsers
TokenIds == 1..MaxTokens
NoToken == 0
Forged == MaxTokens + 1
Creds == TokenIds \cup {Forged}
SocketIds == 1..MaxSockets
ReqIds == 1..MaxReqs
NoUser == 0
\* values ACCESS_EXPIRES can be configured to: "1d" (the default) and "2d"
AccessWindows == {1, 2}

VARIABLES
  useRedis,           \* REDIS_URL set and the client constructed
  allowPublicUploads, \* ALLOW_PUBLIC_UPLOADS
  ACCESS_EXPIRES,     \* expiresIn of signToken
  now,                \* Date.now()
  sweepDue,           \* the 60 s sweep timer has not fired yet in this tick
  issued,             \* token -> payload of the tokens signed so far
  inMemoryBlacklist,  \* Map token -> expiryTimestamp
  redis,              \* keys blacklist:<token> of the Redis server -> expiry
  loggedOut,          \* token -> [until] of the last logout answered for it
  sockets,            \* socket id -> connection record
  rooms,              \* Socket.IO room (one per user id) -> socket ids
  onlineUsers,        \* Map userId -> Set of socket ids
  inbox,              \* socket id -> events emitted to that socket, in order
  http,               \* request id -> REST request record
  chats,              \* the Chat collection, in insertion order (_id = index)
  messages,           \* the Message collection, in insertion order (_id = index)
  crashed             \* the process has exited on an uncaught exception

authVars == <<useRedis, allowPublicUploads, ACCESS_EXPIRES>>
storeVars == <<inMemoryBlacklist, redis, loggedOut>>
gatewayVars == <<sockets, rooms, onlineUsers, inbox>>
vars == <<useRedis, allowPublicUploads, ACCESS_EXPIRES, now, sweepDue, issued,
          inMemoryBlacklist, redis, loggedOut, sockets, rooms, onlineUsers,
          inbox, http, chats, messages, crashed>>
dbVars == <<chats, messages>>

\* ---- maps with a changing key set ----
Keys(m) == DOMAIN m
Has(m, k) == k \in DOMAIN m
Put(m, k, v) == (k :> v) @@ m
Del(m, k) == [x \in (DOMAIN m) \ {k} |-> m[x]]
EmptyMap == [x \in {} |-> 0]

\* ---- credentials --------------------------------------------------------
\* jwt.sign({_id, collegeId}, JWT_SECRET, {expiresIn: ACCESS_EXPIRES})
signToken(user) == [sub |-> user, exp |-> now + ACCESS_EXPIRES]

\* jwt.verify(token, JWT_SECRET): throws on a bad signature and when the
\* clock has reached exp
verifyOk(token) == Has(issued, token) /\ now < issued[token].exp

\* A request's credential headers: Authorization (scheme + credential) and
\* the accessToken cookie.
Headers == [scheme : {"Bearer", "raw", "none"}, cred : Creds \cup {NoToken}, cookie : Creds \cup {NoToken}]

extractTokenFromRequest(h) ==
  IF h.scheme = "Bearer" THEN h.cred
  ELSE IF h.cookie # NoToken THEN h.cookie
  ELSE NoToken

\* socket.handshake.auth.token || headers.authorization || "", then the
\* Bearer prefix is stripped if there is one
Handshakes == [auth : Creds \cup {NoToken}, scheme : {"Bearer", "raw", "none"}, cred : Creds \cup {NoToken}]

handshakeToken(h) ==
  IF h.auth # NoToken THEN h.auth
  ELSE IF h.scheme = "none" THEN NoToken
  ELSE h.cred


\* ---- revocation store ---------------------------------------------------
\* inMemoryBlacklist.has(token): presence of the key, "1" when blacklisted
memLookup(token) == IF Has(inMemoryBlacklist, token) THEN "1" ELSE "nil"

\* redisClient.get(`blacklist:${token}`) on the server: a key written by
\* SETEX with expiry e is gone once the clock has reached e
redisGet(token) == IF Has(redis, token) /\ now < redis[token] THEN "1" ELSE "nil"

\* blacklistToken that blacklists every token signed for the token's user
blacklistMemoryOfUser(token, ttlSeconds) ==
  IF token = NoToken \/ useRedis \/ ~Has(issued, token) THEN inMemoryBlacklist
  ELSE [t \in Keys(inMemoryBlacklist) \cup {k \in Keys(issued) : issued[k].sub = issued[token].sub} |->
          IF Has(issued, t) /\ issued[t].sub = issued[token].sub THEN now + ttlSeconds
          ELSE inMemoryBlacklist[t]]

\* The new inMemoryBlacklist after blacklistToken(token, ttlSeconds)
blacklistMemory(token, ttlSeconds) ==
  IF token = NoToken \/ useRedis THEN inMemoryBlacklist
  ELSE Put(inMemoryBlacklist, token, now + ttlSeconds)

\* The new Redis key space after blacklistToken(token, ttlSeconds); the
\* SETEX is not awaited and its rejection is swallowed by .catch(() => {}):
\* written tells whether the server executed it
blacklistRedis(token, ttlSeconds, written) ==
  IF token = NoToken \/ ~useRedis \/ ~written THEN redis
  ELSE Put(redis, token, now + ttlSeconds)

\* The body of the sweep timer: drop the entries with exp <= now
sweepBlacklist ==
  [t \in {k \in DOMAIN inMemoryBlacklist : ~(inMemoryBlacklist[k] <= now)} |-> inMemoryBlacklist[t]]

\* ---- the token gate shared by auth, io.use and GET /uploads -------------
\* What the code does once the blacklist lookup has answered black
\* ("1", "nil", or "error" when the awaited get rejected): steps lists the
\* checks in the order they were made
checkToken(token, black) ==
  IF black = "error" THEN [outcome |-> "invalid", user |-> NoUser, steps |-> <<"lookup">>]
  ELSE IF black = "1" THEN [outcome |-> "revoked", user |-> NoUser, steps |-> <<"lookup">>]
  ELSE IF verifyOk(token)
       THEN [outcome |-> "ok", user |-> issued[token].sub, steps |-> <<"lookup", "verify">>]
       ELSE [outcome |-> "invalid", user |-> NoUser, steps |-> <<"lookup", "verify">>]

\* Was a logout answered for token whose revokedUntil has not passed yet
revokedNow(token) == Has(loggedOut, token) /\ now < loggedOut[token].until

\* ---- presence -----------------------------------------------------------
\* addPresence that forgets the sessions already registered for the user
addPresenceReplace(userId, socketId) == Put(onlineUsers, userId, {socketId})

\* onlineUsers after addPresence(userId, socketId)
addPresence(userId, socketId) ==
  IF ~Has(onlineUsers, userId) THEN Put(onlineUsers, userId, {socketId})
  ELSE Put(onlineUsers, userId, onlineUsers[userId] \cup {socketId})

\* removePresence without the delete of the emptied entry
removePresenceKeepEmpty(userId, socketId) ==
  IF ~Has(onlineUsers, userId) THEN onlineUsers
  ELSE Put(onlineUsers, userId, onlineUsers[userId] \ {socketId})

\* onlineUsers after removePresence(userId, socketId)
removePresence(userId, socketId) ==
  IF ~Has(onlineUsers, userId) THEN onlineUsers
  ELSE IF onlineUsers[userId] \ {socketId} = {} THEN Del(onlineUsers, userId)
  ELSE Put(onlineUsers, userId, onlineUsers[userId] \ {socketId})

\* io.to(room).emit(ev): the inbox after ev is sent to every socket in the
\* room as it is in roomsNow
emitTo(box, roomsNow, room, ev) ==
  [s \in SocketIds |-> IF s \in roomsNow[room] THEN Append(box[s], ev) ELSE box[s]]

\* broadcastPresence that reads the keys before the mutation is applied
broadcastPresenceBefore(box, connected, online) ==
  [s \in SocketIds |-> IF s \in connected
                       THEN Append(box[s], [type |-> "presence:update", ids |-> Keys(onlineUsers)])
                       ELSE box[s]]

\* io.emit("presence:update", [...onlineUsers.keys()]) to every socket of
\* the namespace (connected), with the map as it is after the mutation
broadcastPresence(box, connected, online) ==
  [s \in SocketIds |-> IF s \in connected
                       THEN Append(box[s], [type |-> "presence:update", ids |-> Keys(online)])
                       ELSE box[s]]

Connected == {s \in SocketIds : sockets[s].st = "joined"}

\* ---- initial state ------------------------------------------------------
FreeSocket == [st |-> "free", tok |-> NoToken, user |-> NoUser, black |-> "nil",
               err |-> "", steps |-> <<>>, afterLogout |-> FALSE, revoked |-> FALSE]
\* The inputs of a request: req.body, and req.params.chatId, req.query.before
\* and req.query.limit of the read routes (NoBefore, 0: not given)
NoBefore == 0 - 1
NoBody == [withUserId |-> NoUser, chatId |-> 0, receiver |-> NoUser, text |-> "",
           before |-> NoBefore, limit |-> 0]
FreeReq == [pc |-> "free", route |-> "", tok |-> NoToken, user |-> NoUser,
            black |-> "nil", status |-> 0, msg |-> "", steps |-> <<>>,
            afterLogout |-> FALSE, revoked |-> FALSE, body |-> NoBody,
            chat |-> 0, created |-> FALSE, message |-> 0, at |-> 0,
            result |-> <<>>, read |-> 0, items |-> <<>>,
            updated |-> 0]

Init ==
  /\ useRedis \in BOOLEAN
  /\ allowPublicUploads \in BOOLEAN
  /\ ACCESS_EXPIRES \in AccessWindows
  /\ now = 0
  /\ sweepDue = FALSE
  /\ issued = EmptyMap
  /\ inMemoryBlacklist = EmptyMap
  /\ redis = EmptyMap
  /\ loggedOut = EmptyMap
  /\ sockets = [s \in SocketIds |-> FreeSocket]
  /\ rooms = [u \in Users |-> {}]
  /\ onlineUsers = EmptyMap
  /\ inbox = [s \in SocketIds |-> <<>>]
  /\ http = [r \in ReqIds |-> FreeReq]
  /\ chats = <<>>
  /\ messages = <<>>
  /\ crashed = FALSE

\* ---- clock and sweep timer ----------------------------------------------
\* 24 hours pass; the 60 s timer fires at least once before the next tick
Tick ==
  /\ now < MaxTime
  /\ ~sweepDue
  /\ now' = now + 1
  /\ sweepDue' = TRUE
  /\ UNCHANGED <<authVars, crashed, issued, storeVars, gatewayVars, http, dbVars>>

\* setInterval(() => {...}, 60 * 1000)
Sweep ==
  /\ sweepDue
  /\ sweepDue' = FALSE
  /\ inMemoryBlacklist' = sweepBlacklist
  /\ UNCHANGED <<authVars, crashed, now, issued, redis, loggedOut, gatewayVars, http, dbVars>>

\* ---- POST /login and POST /logout ---------------------------------------
\* POST /login for a user the ERP check accepts: token = signToken(user)
Login(u) ==
  /\ \E t \in TokenIds :
       /\ ~Has(issued, t)
       /\ \A t2 \in TokenIds : t2 < t => Has(issued, t2)
       /\ issued' = Put(issued, t, signToken(u))
  /\ UNCHANGED <<authVars, crashed, now, sweepDue, storeVars, gatewayVars, http, dbVars>>

\* POST /logout: blacklist the presented token for 24 h and answer success
\* POST /logout that also closes the sockets that were opened with the token
LogoutKick(h, written) ==
  LET token == extractTokenFromRequest(h)
      gone == {s \in SocketIds : sockets[s].st = "joined" /\ sockets[s].tok = token}
  IN
  /\ Has(issued, token)
  /\ ~useRedis => written
  /\ inMemoryBlacklist' = blacklistMemory(token, LogoutTtl)
  /\ redis' = blacklistRedis(token, LogoutTtl, written)
  /\ loggedOut' = Put(loggedOut, token, [until |-> now + LogoutTtl])
  /\ sockets' = [s \in SocketIds |-> IF s \in gone THEN [sockets[s] EXCEPT !.st = "closed"]
                                     ELSE sockets[s]]
  /\ rooms' = [u \in Users |-> rooms[u] \ gone]
  /\ onlineUsers' = [u \in {v \in Keys(onlineUsers) : onlineUsers[v] \ gone # {}} |->
                       onlineUsers[u] \ gone]
  /\ UNCHANGED <<authVars, crashed, now, sweepDue, issued, inbox, http, dbVars>>

Logout(h, written) ==
  LET token == extractTokenFromRequest(h) IN
  /\ Has(issued, token)
  /\ ~useRedis => written
  /\ inMemoryBlacklist' = blacklistMemory(token, LogoutTtl)
  /\ redis' = blacklistRedis(token, LogoutTtl, written)
  /\ loggedOut' = IF token = NoToken THEN loggedOut
                  ELSE Put(loggedOut, token, [until |-> now + LogoutTtl])
  /\ UNCHANGED <<authVars, crashed, now, sweepDue, issued, gatewayVars, http, dbVars>>


\* ---- REST auth middleware (const auth) ----------------------------------
\* Credentials a client can present: tokens that were signed, or a forgery
Presentable(c) == c = NoToken \/ c = Forged \/ Has(issued, c)
\* one credential per request, in the header or in the cookie
ReqHeaders == {h \in Headers : /\ Presentable(h.cred) /\ Presentable(h.cookie)
                               /\ (h.scheme = "none") = (h.cred = NoToken)
                               /\ h.cred = NoToken \/ h.cookie = NoToken}
SockHandshakes == {h \in Handshakes : /\ Presentable(h.auth) /\ Presentable(h.cred)
                                      /\ (h.scheme = "none") = (h.cred = NoToken)
                                      /\ h.auth = NoToken \/ h.cred = NoToken}

\* Request ids are handed out in order
FreshReq(r) == http[r].pc = "free" /\ \A r2 \in ReqIds : r2 < r => http[r2].pc # "free"
FreshSocket(s) == sockets[s].st = "free" /\ \A s2 \in SocketIds : s2 < s => sockets[s2].st # "free"

\* The request record once the blacklist lookup has answered: 401 "Token
\* revoked", 401 "Invalid or expired token" (also from the catch), or next()
gateResult(rec, black) ==
  LET c == checkToken(rec.tok, black) IN
  [rec EXCEPT !.black = black,
              !.steps = IF c.outcome = "ok" THEN c.steps \o <<"grant">> ELSE c.steps,
              !.user = c.user,
              !.pc = IF c.outcome = "ok" THEN "authed" ELSE "done",
              !.status = IF c.outcome = "ok" THEN 0 ELSE 401,
              !.msg = IF c.outcome = "ok" THEN ""
                      ELSE IF c.outcome = "revoked" THEN "Token revoked"
                      ELSE "Invalid or expired token"]

\* The request record when a protected request arrives: no token -> 401
\* missingMsg; Redis -> suspended on the awaited get; otherwise the whole
\* gate runs synchronously
gateBegin(route, h, body, missingMsg, redisUp) ==
  LET token == extractTokenFromRequest(h)
      rec == [FreeReq EXCEPT !.route = route, !.tok = token, !.body = body,
                             !.afterLogout = Has(loggedOut, token),
                             !.revoked = revokedNow(token)]
  IN IF token = NoToken
     THEN [rec EXCEPT !.pc = "done", !.status = 401, !.msg = missingMsg]
     ELSE IF useRedis
     THEN [rec EXCEPT !.pc = "authWait", !.steps = <<"lookup">>,
                      !.black = IF redisUp THEN redisGet(token) ELSE "error"]
     ELSE gateResult(rec, memLookup(token))

ProtectedRoutes == {"/chats/ensure", "/messages"}

\* auth, up to its first suspension
auth(r, route, h, body, redisUp) ==
  /\ FreshReq(r)
  /\ ~useRedis => redisUp
  /\ http' = [http EXCEPT ![r] = gateBegin(route, h, body, "Missing token", redisUp)]
  /\ UNCHANGED <<authVars, crashed, now, sweepDue, issued, storeVars, gatewayVars, dbVars>>

\* auth, resumed with the answer of redisClient.get
authResume(r) ==
  /\ http[r].pc = "authWait"
  /\ http[r].route # "/uploads"
  /\ http' = [http EXCEPT ![r] = gateResult(http[r], http[r].black)]
  /\ UNCHANGED <<authVars, crashed, now, sweepDue, issued, storeVars, gatewayVars, dbVars>>

\* ---- GET /uploads/:filename for an existing file ------------------------
\* res.sendFile(fullPath) once the gate is passed
sendFile(rec) ==
  IF rec.pc = "authed" THEN [rec EXCEPT !.pc = "done", !.status = 200] ELSE rec

serveUpload(r, h, redisUp) ==
  /\ FreshReq(r)
  /\ ~useRedis => redisUp
  /\ http' = [http EXCEPT ![r] =
       IF allowPublicUploads
       THEN [FreeReq EXCEPT !.route = "/uploads", !.pc = "done", !.status = 200,
                            !.steps = <<"grant">>]
       ELSE sendFile(gateBegin("/uploads", h, NoBody,
                               "Authentication required to access uploads", redisUp))]
  /\ UNCHANGED <<authVars, crashed, now, sweepDue, issued, storeVars, gatewayVars, dbVars>>

serveUploadResume(r) ==
  /\ http[r].pc = "authWait"
  /\ http[r].route = "/uploads"
  /\ http' = [http EXCEPT ![r] = sendFile(gateResult(http[r], http[r].black))]
  /\ UNCHANGED <<authVars, crashed, now, sweepDue, issued, storeVars, gatewayVars, dbVars>>

\* ---- Socket.IO handshake middleware (io.use) ----------------------------
\* io.use that calls next() without jwt.verify: the payload is only decoded
socketResultUnverified(rec, black) ==
  IF black = "nil" /\ Has(issued, rec.tok)
  THEN [rec EXCEPT !.black = black, !.steps = <<"lookup", "grant">>,
                   !.user = issued[rec.tok].sub, !.st = "authed"]
  ELSE [rec EXCEPT !.black = black, !.steps = <<"lookup">>, !.st = "rejected",
                   !.err = IF black = "1" THEN "Token revoked" ELSE "Invalid token"]

socketResult(rec, black) ==
  LET c == checkToken(rec.tok, black) IN
  [rec EXCEPT !.black = black,
              !.steps = IF c.outcome = "ok" THEN c.steps \o <<"grant">> ELSE c.steps,
              !.user = c.user,
              !.st = IF c.outcome = "ok" THEN "authed" ELSE "rejected",
              !.err = IF c.outcome = "ok" THEN ""
                      ELSE IF c.outcome = "revoked" THEN "Token revoked"
                      ELSE "Invalid token"]

socketBegin(h, redisUp) ==
  LET token == handshakeToken(h)
      rec == [FreeSocket EXCEPT !.tok = token,
                                !.afterLogout = Has(loggedOut, token),
                                !.revoked = revokedNow(token)]
  IN IF token = NoToken
     THEN [rec EXCEPT !.st = "rejected", !.err = "No token provided"]
     ELSE IF useRedis
     THEN [rec EXCEPT !.st = "authWait", !.steps = <<"lookup">>,
                      !.black = IF redisUp THEN redisGet(token) ELSE "error"]
     ELSE socketResult(rec, memLookup(token))

socketAuth(s, h, redisUp) ==
  /\ FreshSocket(s)
  /\ ~useRedis => redisUp
  /\ sockets' = [sockets EXCEPT ![s] = socketBegin(h, redisUp)]
  /\ UNCHANGED <<authVars, crashed, now, sweepDue, issued, storeVars, rooms, onlineUsers, inbox, http, dbVars>>

socketAuthResume(s) ==
  /\ sockets[s].st = "authWait"
  /\ sockets' = [sockets EXCEPT ![s] = socketResult(sockets[s], sockets[s].black)]
  /\ UNCHANGED <<authVars, crashed, now, sweepDue, issued, storeVars, rooms, onlineUsers, inbox, http, dbVars>>

\* ---- io.on("connection") and socket.on("disconnect") --------------------
\* socket.join(userId); addPresence(userId, socket.id); broadcastPresence()
connection(s) ==
  /\ sockets[s].st = "authed"
  /\ LET userId == sockets[s].user IN
     IF userId = NoUser
     THEN /\ sockets' = [sockets EXCEPT ![s].st = "closed"]
          /\ UNCHANGED <<rooms, onlineUsers, inbox>>
     ELSE /\ sockets' = [sockets EXCEPT ![s].st = "joined"]
          /\ rooms' = [rooms EXCEPT ![userId] = @ \cup {s}]
          /\ onlineUsers' = addPresence(userId, s)
          /\ inbox' = broadcastPresence(inbox, Connected \cup {s}, onlineUsers')
  /\ UNCHANGED <<authVars, crashed, now, sweepDue, issued, storeVars, http, dbVars>>

\* The socket has left its rooms when the handler runs:
\* removePresence(userId, socket.id); broadcastPresence()
disconnect(s) ==
  /\ sockets[s].st = "joined"
  /\ LET userId == sockets[s].user IN
     /\ sockets' = [sockets EXCEPT ![s].st = "closed"]
     /\ rooms' = [rooms EXCEPT ![userId] = @ \ {s}]
     /\ onlineUsers' = removePresence(userId, s)
     /\ inbox' = broadcastPresence(inbox, Connected \ {s}, onlineUsers')
  /\ UNCHANGED <<authVars, crashed, now, sweepDue, issued, storeVars, http, dbVars>>

\* ---- socket.on("typing") ---------------------------------------------------
\* What a client can send with a typing event: nothing at all (given FALSE:
\* undefined or null reaches the handler), or a value whose to and chatId are
\* read (NoUser, 0: the property is absent, as for a string or a number)
TypingPayloads ==
  {[given |-> FALSE, to |-> NoUser, chatId |-> 0]}
    \cup {[given |-> TRUE, to |-> t, chatId |-> 1] : t \in Users \cup {NoUser}}

\* The event { from: userId, chatId }; to and sock keep the room it was
\* emitted to and the socket whose handler emitted it
typingEvent(s, p) ==
  [type |-> "typing", from |-> sockets[s].user, chatId |-> p.chatId, to |-> p.to, sock |-> s]

\* An uncaught exception ends the process: every connection is dropped and
\* the maps in memory are gone
exit ==
  /\ crashed' = TRUE
  /\ sockets' = [s \in SocketIds |->
                   IF sockets[s].st = "free" THEN sockets[s]
                   ELSE [sockets[s] EXCEPT !.st = "closed"]]
  /\ rooms' = [u \in Users |-> {}]
  /\ onlineUsers' = EmptyMap
  /\ inMemoryBlacklist' = EmptyMap

\* A typing handler that emits to every socket of the namespace
typingToAll(s, p) ==
  /\ sockets[s].st = "joined"
  /\ p.given /\ p.to # NoUser
  /\ \A s2 \in Connected : Len(inbox[s2]) < MaxInbox
  /\ inbox' = [s2 \in SocketIds |-> IF s2 \in Connected
                                    THEN Append(inbox[s2], typingEvent(s, p))
                                    ELSE inbox[s2]]
  /\ UNCHANGED <<authVars, crashed, now, sweepDue, issued, storeVars, sockets, rooms,
                 onlineUsers, http, dbVars>>

\* The typing listener of joined socket s called with payload p. The
\* parameter ({ chatId, to }) is destructured before the try block is
\* entered: without a payload that throws, and nothing catches it. Otherwise
\* if (to) io.to(to.toString()).emit("typing", { from: userId, chatId })
typing(s, p) ==
  /\ sockets[s].st = "joined"
  /\ IF ~p.given
     THEN /\ exit
          /\ UNCHANGED <<authVars, now, sweepDue, issued, redis, loggedOut, inbox, http, dbVars>>
     ELSE /\ p.to # NoUser => \A s2 \in rooms[p.to] : Len(inbox[s2]) < MaxInbox
          /\ inbox' = IF p.to = NoUser THEN inbox
                      ELSE emitTo(inbox, rooms, p.to, typingEvent(s, p))
          /\ UNCHANGED <<authVars, crashed, now, sweepDue, issued, storeVars, sockets, rooms,
                         onlineUsers, http, dbVars>>

\* ---- POST /chats/ensure --------------------------------------------------
ChatIds == 1..Len(chats)
Participants(c) == {c.participants[k] : k \in 1..Len(c.participants)}
Min(S) == CHOOSE x \in S : \A y \in S : x <= y

\* Chat.findOne that matches the ordered participants array only
findChatOrdered(a, b) ==
  LET hits == {i \in ChatIds : chats[i].participants = <<a, b>>}
  IN IF hits = {} THEN 0 ELSE Min(hits)

\* Chat.findOne({participants: {$all: [a, b]}}): the first chat, in natural
\* order, whose participants array holds both ids; 0 for null
findChat(a, b) ==
  LET hits == {i \in ChatIds : {a, b} \subseteq Participants(chats[i])}
  IN IF hits = {} THEN 0 ELSE Min(hits)

\* The document Chat.create({participants: [a, b], lastMessage: ""}) stores
newChat(a, b) == [participants |-> <<a, b>>, lastMessage |-> "", updatedAt |-> now]

\* catch (err) of the store handlers: jsonError(res, 500, ...)
serverError(rec) == [rec EXCEPT !.pc = "done", !.status = 500, !.msg = "Internal server error"]

\* The handler up to the answer of Chat.findOne; ok is FALSE when the store
\* rejects the query
chatsEnsureFind(r, ok) ==
  /\ http[r].pc = "authed"
  /\ http[r].route = "/chats/ensure"
  /\ LET withUserId == http[r].body.withUserId
         chat == findChat(http[r].user, withUserId)
     IN http' = [http EXCEPT ![r] =
          IF withUserId = NoUser
          THEN [@ EXCEPT !.pc = "done", !.status = 400, !.msg = "withUserId required"]
          ELSE IF ~ok
          THEN serverError(@)
          ELSE IF chat # 0
          THEN [@ EXCEPT !.pc = "done", !.status = 200, !.chat = chat]
          ELSE [@ EXCEPT !.pc = "create"]]
  /\ UNCHANGED <<authVars, crashed, now, sweepDue, issued, storeVars, gatewayVars, dbVars>>

\* if (!chat) chat = await Chat.create(...); res.json({success, chat})
chatsEnsureCreate(r, ok) ==
  /\ http[r].pc = "create"
  /\ IF ok
     THEN /\ Len(chats) < MaxChats
          /\ chats' = Append(chats, newChat(http[r].user, http[r].body.withUserId))
          /\ http' = [http EXCEPT ![r] = [@ EXCEPT !.pc = "done", !.status = 200,
                                                    !.chat = Len(chats) + 1, !.created = TRUE]]
     ELSE /\ chats' = chats
          /\ http' = [http EXCEPT ![r] = serverError(@)]
  /\ UNCHANGED <<authVars, crashed, now, sweepDue, issued, storeVars, gatewayVars, messages>>

\* ---- POST /messages ------------------------------------------------------
Texts == {"", " ", " hello "}
\* text.toString().trim()
trim(text) == IF text \in {"", " "} THEN "" ELSE "hello"

MessageIds == 1..Len(messages)

\* Message.create that resolves without the document having been stored
createMessageLost(rec) == messages

\* The Message collection after Message.create({chatId, sender, receiver,
\* text: sanitized}); seen and createdAt come from the schema
createMessage(rec) ==
  Append(messages, [chatId |-> rec.body.chatId, sender |-> rec.user,
                    receiver |-> rec.body.receiver, text |-> trim(rec.body.text),
                    createdAt |-> now, seen |-> FALSE])

\* The handler up to the answer of Message.create: 400 unless chatId,
\* receiver and a text that is not blank are given, 500 when the store
\* rejects the document
messagesCreate(r, ok) ==
  /\ http[r].pc = "authed"
  /\ http[r].route = "/messages"
  /\ LET b == http[r].body IN
     IF b.chatId = 0 \/ b.receiver = NoUser \/ b.text = "" \/ trim(b.text) = ""
     THEN /\ http' = [http EXCEPT ![r] = [@ EXCEPT !.pc = "done", !.status = 400,
                                                   !.msg = "chatId, receiver, text required"]]
          /\ UNCHANGED messages
     ELSE IF ~ok
     THEN /\ http' = [http EXCEPT ![r] = serverError(@)]
          /\ UNCHANGED messages
     ELSE /\ Len(messages) < MaxMsgs
          /\ messages' = createMessage(http[r])
          /\ http' = [http EXCEPT ![r] = [@ EXCEPT !.pc = "updateChat",
                                                   !.message = Len(messages) + 1,
                                                   !.at = now]]
  /\ UNCHANGED <<authVars, crashed, now, sweepDue, issued, storeVars, gatewayVars, chats>>

\* The four emits that follow the chat update, in the order of the code
emitMessage(box, rec) ==
  LET m == [type |-> "message:new", message |-> rec.message, chatId |-> rec.body.chatId,
            text |-> trim(rec.body.text), at |-> rec.at]
      c == [type |-> "chat:updated", message |-> rec.message, chatId |-> rec.body.chatId,
            text |-> trim(rec.body.text), at |-> rec.at]
  IN emitTo(emitTo(emitTo(emitTo(box, rooms, rec.body.receiver, m),
                          rooms, rec.user, m),
                   rooms, rec.body.receiver, c),
            rooms, rec.user, c)

\* Chat.findByIdAndUpdate(chatId, {lastMessage, updatedAt}) has answered (null
\* for an unknown id); the events are emitted and 201 is answered. When the
\* update is rejected nothing is emitted and 500 is answered
messagesUpdate(r, ok) ==
  /\ http[r].pc = "updateChat"
  /\ http[r].route = "/messages"
  /\ LET rec == http[r] IN
     IF ok
     THEN /\ chats' = IF rec.body.chatId \in ChatIds
                      THEN [chats EXCEPT ![rec.body.chatId] =
                              [@ EXCEPT !.lastMessage = trim(rec.body.text),
                                        !.updatedAt = now]]
                      ELSE chats
          /\ inbox' = emitMessage(inbox, rec)
          /\ http' = [http EXCEPT ![r] = [@ EXCEPT !.pc = "done", !.status = 201]]
     ELSE /\ chats' = chats
          /\ inbox' = inbox
          /\ http' = [http EXCEPT ![r] = serverError(@)]
  /\ UNCHANGED <<authVars, crashed, now, sweepDue, issued, storeVars, sockets, rooms, onlineUsers, messages>>

\* ---- controllers/messageController.js: sendMessage -------------------------
\* Message.create({chatId, sender: req.user._id, receiver, text}): the text
\* is stored as it was sent
createMessageRaw(rec) ==
  Append(messages, [chatId |-> rec.body.chatId, sender |-> rec.user,
                    receiver |-> rec.body.receiver, text |-> rec.body.text,
                    createdAt |-> now, seen |-> FALSE])

\* sendMessage behind a middleware that has set req.user, up to the answer of
\* Message.create: 400 unless chatId, receiver and text are given
sendMessageCreate(r, ok) ==
  /\ http[r].pc = "authed"
  /\ http[r].route = "sendMessage"
  /\ LET b == http[r].body IN
     IF b.chatId = 0 \/ b.receiver = NoUser \/ b.text = ""
     THEN /\ http' = [http EXCEPT ![r] = [@ EXCEPT !.pc = "done", !.status = 400,
                                                   !.msg = "chatId, receiver, and text are required"]]
          /\ UNCHANGED messages
     ELSE IF ~ok
     THEN /\ http' = [http EXCEPT ![r] = serverError(@)]
          /\ UNCHANGED messages
     ELSE /\ Len(messages) < MaxMsgs
          /\ messages' = createMessageRaw(http[r])
          /\ http' = [http EXCEPT ![r] = [@ EXCEPT !.pc = "updateChat",
                                                   !.message = Len(messages) + 1,
                                                   !.at = now]]
  /\ UNCHANGED <<authVars, crashed, now, sweepDue, issued, storeVars, gatewayVars, chats>>

\* Chat.findByIdAndUpdate(chatId, {lastMessage: text, updatedAt}) has
\* answered; newMessage is emitted to the receiver's room and 201 answered
sendMessageUpdate(r, ok) ==
  /\ http[r].pc = "updateChat"
  /\ http[r].route = "sendMessage"
  /\ LET rec == http[r] IN
     IF ok
     THEN /\ chats' = IF rec.body.chatId \in ChatIds
                      THEN [chats EXCEPT ![rec.body.chatId] =
                              [@ EXCEPT !.lastMessage = rec.body.text, !.updatedAt = now]]
                      ELSE chats
          /\ inbox' = emitTo(inbox, rooms, rec.body.receiver,
                             [type |-> "newMessage", message |-> rec.message,
                              chatId |-> rec.body.chatId, text |-> rec.body.text,
                              at |-> rec.at])
          /\ http' = [http EXCEPT ![r] = [@ EXCEPT !.pc = "done", !.status = 201]]
     ELSE /\ chats' = chats
          /\ inbox' = inbox
          /\ http' = [http EXCEPT ![r] = serverError(@)]
  /\ UNCHANGED <<authVars, crashed, now, sweepDue, issued, storeVars, sockets, rooms, onlineUsers, messages>>

\* ---- GET /chats ---------------------------------------------------------
\* The orders in which a sort by key, descending, can return the documents S:
\* the order of documents with equal keys is not determined
SortedDesc(S, key) ==
  {p \in [1..Cardinality(S) -> S] :
     \A i, j \in 1..Cardinality(S) : i < j => (p[i] # p[j] /\ key[p[i]] >= key[p[j]])}

MessagesOf(c) == {i \in MessageIds : messages[i].chatId = c}

\* The answers Message.findOne({chatId: c}).sort({createdAt: -1}) can give:
\* a message of the chat with the greatest createdAt, 0 (null) if there is none
LastMessages(c) ==
  IF MessagesOf(c) = {} THEN {0}
  ELSE {i \in MessagesOf(c) : \A j \in MessagesOf(c) : messages[j].createdAt <= messages[i].createdAt}

\* Message.countDocuments({chatId: c, receiver: u, seen: false})
countUnread(c, u) ==
  Cardinality({i \in MessagesOf(c) : messages[i].receiver = u /\ ~messages[i].seen})

\* The handler up to the answer of Chat.find({participants: user}).sort({
\* updatedAt: -1}): one item per chat, its meta data still to be read
chatsFind(r, ok) ==
  /\ http[r].pc = "authed"
  /\ http[r].route = "/chats"
  /\ \E ord \in SortedDesc({c \in ChatIds : http[r].user \in Participants(chats[c])},
                           [c \in ChatIds |-> chats[c].updatedAt]) :
       http' = [http EXCEPT ![r] =
         IF ~ok THEN serverError(@)
         ELSE IF Len(ord) = 0 THEN [@ EXCEPT !.pc = "done", !.status = 200]
         ELSE [@ EXCEPT !.pc = "meta",
                        !.items = [k \in 1..Len(ord) |->
                                     [chat |-> ord[k], updatedAt |-> chats[ord[k]].updatedAt,
                                      lastMessage |-> chats[ord[k]].lastMessage,
                                      lastMessageAt |-> chats[ord[k]].updatedAt,
                                      unread |-> 0, pc |-> "lastMsg", read |-> 0]]]]
  /\ UNCHANGED <<authVars, crashed, now, sweepDue, issued, storeVars, gatewayVars, dbVars>>

\* lastMessage: lastMsg?.text || chat.lastMessage || "", lastMessageAt:
\* lastMsg?.createdAt || chat.updatedAt, for the answer m of Message.findOne;
\* read notes how many messages the store held when it answered
chatSummary(item, m) ==
  IF m = 0
  THEN [item EXCEPT !.pc = "unread", !.read = Len(messages)]
  ELSE [item EXCEPT !.pc = "unread", !.read = Len(messages),
                    !.lastMessage = messages[m].text,
                    !.lastMessageAt = messages[m].createdAt]

\* Message.findOne of item k has answered; a rejection rejects Promise.all
chatsLastMsg(r, k, ok) ==
  /\ http[r].pc = "meta"
  /\ k \in 1..Len(http[r].items)
  /\ http[r].items[k].pc = "lastMsg"
  /\ \E m \in LastMessages(http[r].items[k].chat) :
       http' = [http EXCEPT ![r] =
         IF ~ok THEN serverError(@)
         ELSE [@ EXCEPT !.items[k] = chatSummary(@, m)]]
  /\ UNCHANGED <<authVars, crashed, now, sweepDue, issued, storeVars, gatewayVars, dbVars>>

\* Message.countDocuments of item k has answered, .catch(() => 0) included;
\* with the last item Promise.all resolves and the list is answered
chatsUnread(r, k, ok) ==
  /\ http[r].pc = "meta"
  /\ k \in 1..Len(http[r].items)
  /\ http[r].items[k].pc = "unread"
  /\ LET n == IF ok THEN countUnread(http[r].items[k].chat, http[r].user) ELSE 0
         items == [http[r].items EXCEPT ![k] = [@ EXCEPT !.pc = "ready", !.unread = n]]
     IN http' = [http EXCEPT ![r] =
          IF \A i \in 1..Len(items) : items[i].pc = "ready"
          THEN [@ EXCEPT !.items = items, !.pc = "done", !.status = 200]
          ELSE [@ EXCEPT !.items = items]]
  /\ UNCHANGED <<authVars, crashed, now, sweepDue, issued, storeVars, gatewayVars, dbVars>>

\* Request bodies; a chatId is missing (0), the id of a stored chat, or an id
\* no chat has
EnsureBodies == {[NoBody EXCEPT !.withUserId = w] : w \in Users \cup {NoUser}}
AllMessageBodies == {[NoBody EXCEPT !.chatId = c, !.receiver = u, !.text = t] :
                       c \in 0..(Len(chats) + 1), u \in Users \cup {NoUser}, t \in Texts}
\* complete bodies, and bodies with exactly one field missing or blank
MessageBodies ==
  {b \in AllMessageBodies :
     Cardinality({f \in {"chatId", "receiver", "text"} :
                    \/ f = "chatId" /\ b.chatId = 0
                    \/ f = "receiver" /\ b.receiver = NoUser
                    \/ f = "text" /\ trim(b.text) = ""}) <= 1}

\* ---- GET /messages/:chatId and PUT /messages/:chatId/seen ------------------
ListRoute == "/messages/:chatId"

\* Math.min(Number(limit) || 50, 100), for a limit that is absent, zero or
\* not a number (0) or a positive number
listLimit(limit) == Min({IF limit = 0 THEN DefaultLimit ELSE limit, LimitCap})

\* The query {chatId} with createdAt: {$lt: before} when before is given
listQuery(c, before) ==
  {i \in MessagesOf(c) : before = NoBefore \/ messages[i].createdAt < before}

\* find(q).sort({createdAt: -1}).limit(n) as ord returns it, then reverse()
listPage(ord, n) ==
  LET len == Min({Len(ord), n}) IN [k \in 1..len |-> ord[len + 1 - k]]

\* GET /messages/:chatId: the page of message ids it answers, or 500 when the
\* store rejects the query
getMessages(r, ok) ==
  /\ http[r].pc = "authed"
  /\ http[r].route = ListRoute
  /\ \E ord \in SortedDesc(listQuery(http[r].body.chatId, http[r].body.before),
                           [i \in MessageIds |-> messages[i].createdAt]) :
       http' = [http EXCEPT ![r] =
         IF ~ok THEN serverError(@)
         ELSE [@ EXCEPT !.pc = "done", !.status = 200,
                        !.result = listPage(ord, listLimit(http[r].body.limit)),
                        !.read = Len(messages)]]
  /\ UNCHANGED <<authVars, crashed, now, sweepDue, issued, storeVars, gatewayVars, chats, messages>>

SeenRoute == "/messages/:chatId/seen"

\* The filter {chatId: c, receiver: u}, without seen: false
addressedTo(c, u) == {i \in MessagesOf(c) : messages[i].receiver = u}

\* The filter {chatId: c, seen: false}, without the receiver
unseenIn(c, u) == {i \in MessagesOf(c) : ~messages[i].seen}

\* The messages Message.updateMany({chatId: c, receiver: u, seen: false}) matches
unseenOf(c, u) == {i \in MessagesOf(c) : messages[i].receiver = u /\ ~messages[i].seen}

\* PUT /messages/:chatId/seen: updateMany sets seen on the matched messages
\* and the answer carries modifiedCount; 500 when the store rejects the update
markSeen(r, ok) ==
  /\ http[r].pc = "authed"
  /\ http[r].route = SeenRoute
  /\ LET hit == unseenOf(http[r].body.chatId, http[r].user) IN
     IF ok
     THEN /\ messages' = [i \in MessageIds |->
                            IF i \in hit THEN [messages[i] EXCEPT !.seen = TRUE]
                            ELSE messages[i]]
          /\ http' = [http EXCEPT ![r] = [@ EXCEPT !.pc = "done", !.status = 200,
                                                   !.updated = Cardinality(hit),
                                                   !.read = Len(messages)]]
     ELSE /\ messages' = messages
          /\ http' = [http EXCEPT ![r] = serverError(@)]
  /\ UNCHANGED <<authVars, crashed, now, sweepDue, issued, storeVars, gatewayVars, chats>>

\* ---- specifications -----------------------------------------------------
\* The REST token gates: clock, sweep, login, logout, auth and the gated
\* upload route
Next ==
  \/ Tick
  \/ Sweep
  \/ \E u \in 1..MaxGateUsers : Login(u)
  \/ \E h \in ReqHeaders, w \in BOOLEAN : Logout(h, w)
  \/ \E h \in ReqHeaders : \E r \in 1..MaxGateReqs, route \in ProtectedRoutes, up \in BOOLEAN :
       auth(r, route, h, NoBody, up)
  \/ \E r \in ReqIds : authResume(r)
  \/ \E h \in ReqHeaders : \E r \in 1..MaxGateReqs, up \in BOOLEAN : serveUpload(r, h, up)
  \/ \E r \in ReqIds : serveUploadResume(r)

Spec == Init /\ [][Next]_vars

\* The real-time handshake under revocation: clock, sweep, login, logout and
\* the life of a connection
NextSocket ==
  \/ Tick
  \/ Sweep
  \/ \E u \in 1..MaxGateUsers : Login(u)
  \/ \E h \in ReqHeaders, w \in BOOLEAN : Logout(h, w)
  \/ \E h \in SockHandshakes : \E s \in 1..MaxGateSockets, up \in BOOLEAN : socketAuth(s, h, up)
  \/ \E s \in SocketIds : socketAuthResume(s)
  \/ \E s \in SocketIds : connection(s)
  \/ \E s \in SocketIds : disconnect(s)

\* The upload gate plays no part in the handshake: ALLOW_PUBLIC_UPLOADS is
\* left at its default, "false"
InitSocket == Init /\ ~allowPublicUploads

SpecSocket == InitSocket /\ [][NextSocket]_vars

\* Presence: logins and the life of the real-time connections
NextPresence ==
  \/ \E u \in Users : Login(u)
  \/ \E h \in SockHandshakes : \E s \in SocketIds, up \in BOOLEAN : socketAuth(s, h, up)
  \/ \E s \in SocketIds : socketAuthResume(s)
  \/ \E s \in SocketIds : connection(s)
  \/ \E s \in SocketIds : disconnect(s)

\* ALLOW_PUBLIC_UPLOADS and ACCESS_EXPIRES at their defaults, "false" and "1d"
InitPresence == Init /\ ~allowPublicUploads /\ ACCESS_EXPIRES = 1

SpecPresence == InitPresence /\ [][NextPresence]_vars

\* The chat pipeline is followed with the in-memory blacklist, from the state
\* in which every user has logged in (token u for user u)
LoggedIn == Users \cap TokenIds
BearerHeaders == {h \in ReqHeaders : h.scheme = "Bearer" /\ h.cred \in TokenIds}

\* Every user of LoggedIn has logged in at time 0 with validity window w, and
\* the message store holds hist
InitStore(w, hist) ==
  /\ useRedis = FALSE
  /\ allowPublicUploads = FALSE
  /\ ACCESS_EXPIRES = w
  /\ now = 0
  /\ sweepDue = FALSE
  /\ issued = [t \in LoggedIn |-> [sub |-> t, exp |-> w]]
  /\ inMemoryBlacklist = EmptyMap
  /\ redis = EmptyMap
  /\ loggedOut = EmptyMap
  /\ rooms = [u \in Users |-> {}]
  /\ onlineUsers = EmptyMap
  /\ inbox = [s \in SocketIds |-> <<>>]
  /\ http = [r \in ReqIds |-> FreeReq]
  /\ messages = hist
  /\ crashed = FALSE

InitSession(w) == InitStore(w, <<>>)

InitLoggedIn == InitSession(1)

\* POST /chats/ensure, the awaited findOne and create of concurrent requests
\* interleaved
InitEnsure ==
  /\ InitLoggedIn
  /\ sockets = [s \in SocketIds |-> FreeSocket]
  /\ chats = <<>>

NextEnsure ==
  \/ \E h \in BearerHeaders : \E r \in 1..MaxConcurrent, b \in EnsureBodies : auth(r, "/chats/ensure", h, b, TRUE)
  \/ \E r \in ReqIds, ok \in BOOLEAN : chatsEnsureFind(r, ok)
  \/ \E r \in ReqIds, ok \in BOOLEAN : chatsEnsureCreate(r, ok)

SpecEnsure == InitEnsure /\ [][NextEnsure]_vars

\* The same requests one at a time: a request arrives when every earlier one
\* has been answered
Idle == \A r \in ReqIds : http[r].pc \in {"free", "done"}

NextEnsureSeq ==
  \/ \E h \in BearerHeaders : \E r \in ReqIds, b \in EnsureBodies :
       Idle /\ auth(r, "/chats/ensure", h, b, TRUE)
  \/ \E r \in ReqIds, ok \in BOOLEAN : chatsEnsureFind(r, ok)
  \/ \E r \in ReqIds, ok \in BOOLEAN : chatsEnsureCreate(r, ok)

SpecEnsureSeq == InitEnsure /\ [][NextEnsureSeq]_vars

\* POST /messages, from the state in which users 1 and 2 have ensured their
\* chat and MaxChatSockets handshakes have passed io.use: the connections
\* join while the requests run, their awaited store operations interleaved
InitChat ==
  /\ InitLoggedIn
  /\ \E f \in [1..MaxChatSockets -> LoggedIn] :
       sockets = [s \in SocketIds |->
                    IF s <= MaxChatSockets
                    THEN [FreeSocket EXCEPT !.st = "authed", !.tok = f[s], !.user = f[s],
                                            !.steps = <<"lookup", "verify", "grant">>]
                    ELSE FreeSocket]
  /\ chats = <<newChat(1, 2)>>

NextChat ==
  \/ \E s \in SocketIds : connection(s)
  \/ \E h \in BearerHeaders : \E r \in 1..MaxConcurrent, b \in MessageBodies : auth(r, "/messages", h, b, TRUE)
  \/ \E r \in ReqIds, ok \in BOOLEAN : messagesCreate(r, ok)
  \/ \E r \in ReqIds, ok \in BOOLEAN : messagesUpdate(r, ok)

SpecChat == InitChat /\ [][NextChat]_vars

\* GET /chats read while POST /messages requests run, from the state in which user 1 has a chat with user 2 and one with user 3;
\* the tokens outlive the run
InitRead ==
  /\ InitSession(MaxTime + 1)
  /\ sockets = [s \in SocketIds |-> FreeSocket]
  /\ chats = <<newChat(1, 2), newChat(1, 3)>>

\* Bodies of POST /messages by which user u writes to the other participant
\* of one of u's chats
SendBodies(u) ==
  {b \in AllMessageBodies : /\ b.chatId \in ChatIds
                            /\ b.receiver # u
                            /\ Participants(chats[b.chatId]) = {u, b.receiver}
                            /\ b.text = " hello "}

\* The reader: user 1, who is in both chats
ReaderHeaders == {h \in BearerHeaders : issued[h.cred].sub = 1}

NextRead ==
  \/ \E h \in BearerHeaders : \E r \in 1..MaxConcurrent, b \in SendBodies(issued[h.cred].sub) :
       auth(r, "/messages", h, b, TRUE)
  \/ \E r \in ReqIds, ok \in BOOLEAN : messagesCreate(r, ok)
  \/ \E r \in ReqIds, ok \in BOOLEAN : messagesUpdate(r, ok)
  \/ \E h \in ReaderHeaders : \E r \in ReqIds : auth(r, "/chats", h, NoBody, TRUE)
  \/ \E r \in ReqIds, ok \in BOOLEAN : chatsFind(r, ok)
  \/ \E r \in ReqIds, k \in 1..MaxChats, ok \in BOOLEAN : chatsLastMsg(r, k, ok)
  \/ \E r \in ReqIds, k \in 1..MaxChats, ok \in BOOLEAN : chatsUnread(r, k, ok)

SpecRead == InitRead /\ [][NextRead]_vars

\* The same with the clock advancing between the steps and a store that
\* answers every operation; the list is asked for once the sends have been
\* answered
NextOrder ==
  \/ Tick
  \/ Sweep
  \/ \E h \in BearerHeaders : \E r \in 1..MaxConcurrent, b \in SendBodies(issued[h.cred].sub) :
       auth(r, "/messages", h, b, TRUE)
  \/ \E r \in ReqIds : messagesCreate(r, TRUE)
  \/ \E r \in ReqIds : messagesUpdate(r, TRUE)
  \/ \E h \in ReaderHeaders : \E r \in (MaxConcurrent + 1)..MaxReqs :
       Idle /\ auth(r, "/chats", h, NoBody, TRUE)
  \/ \E r \in ReqIds : chatsFind(r, TRUE)
  \/ \E r \in ReqIds, k \in 1..MaxChats : chatsLastMsg(r, k, TRUE)
  \/ \E r \in ReqIds, k \in 1..MaxChats : chatsUnread(r, k, TRUE)

SpecOrder == InitRead /\ [][NextOrder]_vars

\* Bodies sent to the message controller: a text, blank or not, for the
\* other participant of one of the sender's chats, and bodies with the chat
\* or the receiver missing
ControllerBodies(u) ==
  {b \in MessageBodies :
     \/ b.chatId = 0 /\ b.receiver # u
     \/ b.chatId \in ChatIds /\ b.receiver = NoUser
     \/ /\ b.chatId \in ChatIds
        /\ Participants(chats[b.chatId]) = {u, b.receiver}}

\* sendMessage of the message controller, from the state of InitChat
NextController ==
  \/ \E s \in SocketIds : connection(s)
  \/ \E h \in BearerHeaders : \E r \in 1..MaxConcurrent, b \in ControllerBodies(issued[h.cred].sub) :
       auth(r, "sendMessage", h, b, TRUE)
  \/ \E r \in ReqIds, ok \in BOOLEAN : sendMessageCreate(r, ok)
  \/ \E r \in ReqIds, ok \in BOOLEAN : sendMessageUpdate(r, ok)

SpecController == InitChat /\ [][NextController]_vars

\* GET /messages/:chatId paged backwards with no write going on: users 1 and
\* 2 have their chat, in which up to MaxMsgs messages were sent at time 0; at
\* most one more message is sent, and then user 1 reads the chat page by page
Histories ==
  UNION {[1..n -> {[chatId |-> 1, sender |-> u, receiver |-> 3 - u, text |-> "hello",
                    createdAt |-> 0, seen |-> FALSE] : u \in {1, 2}}] : n \in 0..MaxMsgs}

InitPages ==
  /\ \E hist \in Histories : InitStore(MaxTime + 1, hist)
  /\ sockets = [s \in SocketIds |-> FreeSocket]
  /\ chats = <<[participants |-> <<1, 2>>,
                lastMessage |-> IF messages = <<>> THEN "" ELSE "hello",
                updatedAt |-> 0]>>

NoPaging == \A r \in ReqIds : http[r].route # ListRoute

\* The query of a first page: no before, and a limit that is absent or given
FirstPages == {[NoBody EXCEPT !.chatId = 1, !.limit = n] : n \in 0..MaxMsgs}

\* The query that follows the page answered to request r: the same chat and
\* limit, before = the createdAt of the earliest message of that page
NextPages(r) ==
  IF /\ r \in ReqIds
     /\ http[r].route = ListRoute
     /\ http[r].status = 200
     /\ http[r].result # <<>>
  THEN {[http[r].body EXCEPT !.before = messages[http[r].result[1]].createdAt]}
  ELSE {}

NextPaging ==
  \/ Tick
  \/ Sweep
  \/ \E h \in BearerHeaders : \E r \in ReqIds, b \in SendBodies(issued[h.cred].sub) :
       Idle /\ NoPaging /\ auth(r, "/messages", h, b, TRUE)
  \/ \E r \in ReqIds : messagesCreate(r, TRUE)
  \/ \E r \in ReqIds : messagesUpdate(r, TRUE)
  \/ \E h \in ReaderHeaders : \E r \in ReqIds, b \in FirstPages :
       Idle /\ NoPaging /\ auth(r, ListRoute, h, b, TRUE)
  \/ \E h \in ReaderHeaders : \E r \in ReqIds : \E b \in NextPages(r - 1) :
       Idle /\ auth(r, ListRoute, h, b, TRUE)
  \/ \E r \in ReqIds : getMessages(r, TRUE)

SpecPages == InitPages /\ [][NextPaging]_vars

\* Sends, PUT /messages/:chatId/seen, GET /messages/:chatId and GET /chats of
\* users 1 and 2 on their chat, their store operations interleaved, from the
\* states of InitPages; the lists ask for the whole chat
WholeChats == {b \in FirstPages : b.limit = 0}
SeenBodies == {[NoBody EXCEPT !.chatId = c] : c \in ChatIds}

NextSeen ==
  \/ \E h \in BearerHeaders : \E r \in ReqIds, b \in SendBodies(issued[h.cred].sub) :
       auth(r, "/messages", h, b, TRUE)
  \/ \E r \in ReqIds : messagesCreate(r, TRUE)
  \/ \E r \in ReqIds : messagesUpdate(r, TRUE)
  \/ \E h \in BearerHeaders : \E r \in ReqIds, b \in SeenBodies : auth(r, SeenRoute, h, b, TRUE)
  \/ \E r \in ReqIds, ok \in BOOLEAN : markSeen(r, ok)
  \/ \E h \in BearerHeaders : \E r \in ReqIds, b \in WholeChats : auth(r, ListRoute, h, b, TRUE)
  \/ \E r \in ReqIds : getMessages(r, TRUE)
  \/ \E h \in BearerHeaders : \E r \in ReqIds : auth(r, "/chats", h, NoBody, TRUE)
  \/ \E r \in ReqIds : chatsFind(r, TRUE)
  \/ \E r \in ReqIds, k \in 1..MaxChats : chatsLastMsg(r, k, TRUE)
  \/ \E r \in ReqIds, k \in 1..MaxChats : chatsUnread(r, k, TRUE)

SpecSeen == InitPages /\ [][NextSeen]_vars

\* Typing events relayed between connections while they join and disconnect,
\* from the state in which every handshake has passed io.use; nothing runs
\* once the process has exited
InitTyping ==
  /\ InitLoggedIn
  /\ \E f \in [SocketIds -> LoggedIn] :
       sockets = [s \in SocketIds |->
                    [FreeSocket EXCEPT !.st = "authed", !.tok = f[s], !.user = f[s],
                                       !.steps = <<"lookup", "verify", "grant">>]]
  /\ chats = <<newChat(1, 2)>>

NextTyping ==
  \/ \E s \in SocketIds : ~crashed /\ connection(s)
  \/ \E s \in SocketIds : ~crashed /\ disconnect(s)
  \/ \E s \in SocketIds, p \in TypingPayloads : ~crashed /\ typing(s, p)

SpecTyping == InitTyping /\ [][NextTyping]_vars

\* Logouts while connections are joined: the connections of InitChat join and
\* disconnect, user 1 logs out, and messages and typing events are sent to
\* the users who are logged in
GivenPayloads == {p \in TypingPayloads : p.given /\ p.to \in LoggedIn}

NextLogout ==
  \/ \E s \in SocketIds : connection(s)
  \/ \E s \in SocketIds : disconnect(s)
  \/ \E h \in ReaderHeaders : Logout(h, TRUE)
  \/ \E h \in BearerHeaders : \E r \in 1..MaxConcurrent, b \in SendBodies(issued[h.cred].sub) :
       auth(r, "/messages", h, b, TRUE)
  \/ \E r \in ReqIds : messagesCreate(r, TRUE)
  \/ \E r \in ReqIds : messagesUpdate(r, TRUE)
  \/ \E s \in SocketIds, p \in GivenPayloads : typing(s, p)

SpecLogout == InitChat /\ [][NextLogout]_vars

\* Revocation of one token among several: user 1 logs in more than once,
\* tokens are logged out, and requests and handshakes present the tokens
NextRevoke ==
  \/ \E u \in 1..MaxGateUsers : Login(u)
  \/ \E h \in ReqHeaders, w \in BOOLEAN : Logout(h, w)
  \/ \E h \in ReqHeaders : \E r \in 1..MaxConcurrent, up \in BOOLEAN :
       auth(r, "/chats/ensure", h, NoBody, up)
  \/ \E r \in ReqIds : authResume(r)
  \/ \E h \in SockHandshakes : \E s \in 1..MaxGateSockets, up \in BOOLEAN : socketAuth(s, h, up)
  \/ \E s \in SocketIds : socketAuthResume(s)
  \/ \E s \in SocketIds : connection(s)

SpecRevoke == InitPresence /\ [][NextRevoke]_vars

\* ---- claims: presence ----------------------------------------------------
\* Sessions of user u that have connected and not yet disconnected
OpenSessions(u) == {s \in SocketIds : sockets[s].st = "joined" /\ sockets[s].user = u}

\* C1: after any sequence of connects and disconnects, a user is a key of
\* onlineUsers exactly when at least one of the user's sessions has connected
\* and not yet disconnected
OnlineIffOpenSession ==
  \A u \in Users : Has(onlineUsers, u) <=> OpenSessions(u) # {}

\* A user with one session gone and two still open
WitnessOnlineIffOpenSession ==
  \E u \in Users :
    /\ Cardinality(OpenSessions(u)) >= 2
    /\ \E s \in SocketIds : sockets[s].st = "closed" /\ sockets[s].user = u
    /\ Has(onlineUsers, u)

\* C2: every key of onlineUsers has a non-empty session set, made of the
\* user's open sessions: no operation leaves an empty set stored
NoEmptyPresenceEntry ==
  \A u \in Keys(onlineUsers) : onlineUsers[u] # {} /\ onlineUsers[u] = OpenSessions(u)

\* The last session of a user has disconnected and the key is gone, while
\* another user is still online
WitnessNoEmptyPresenceEntry ==
  \E s \in SocketIds :
    /\ sockets[s].st = "closed"
    /\ sockets[s].user # NoUser
    /\ ~Has(onlineUsers, sockets[s].user)
    /\ Keys(onlineUsers) # {}

\* ---- claims: revocation --------------------------------------------------
\* The gate attempts that have consulted the blacklist
Looked == {x \in {http[r] : r \in ReqIds} : Len(x.steps) > 0 /\ x.steps[1] = "lookup"}
SockLooked == {x \in {sockets[s] : s \in SocketIds} : Len(x.steps) > 0 /\ x.steps[1] = "lookup"}

\* C3: a connection attempt that presents a token after a logout was answered
\* for it never passes the handshake: it is not authenticated, not joined to
\* a room and not in the presence map
RevokedTokenNeverJoins ==
  \A s \in SocketIds :
    sockets[s].afterLogout =>
      /\ sockets[s].st \notin {"authed", "joined"}
      /\ \A u \in Users : s \notin rooms[u]
      /\ \A u \in Keys(onlineUsers) : s \notin onlineUsers[u]

\* C4: from the moment a logout is answered for a token until its
\* revokedUntil passes, every blacklist lookup for that token reports it as
\* blacklisted, with the in-memory map and with Redis
RevokedUntilExpiry ==
  /\ \A x \in Looked : x.revoked => x.black # "nil"
  /\ \A x \in SockLooked : x.revoked => x.black # "nil"

\* C5: a lookup made when the entry's revokedUntil has passed does not report
\* the token as blacklisted, swept or not
ExpiredEntryNotRevoked ==
  /\ \A x \in Looked : (x.afterLogout /\ ~x.revoked) => x.black # "1"
  /\ \A x \in SockLooked : (x.afterLogout /\ ~x.revoked) => x.black # "1"

\* C6: the ttl of every revocation reaches the natural expiry of the token,
\* and no gate accepts a token after a logout was answered for it
TtlCoversLifetime ==
  /\ \A t \in Keys(loggedOut) : loggedOut[t].until >= issued[t].exp
  /\ \A r \in ReqIds : http[r].afterLogout => ~(http[r].pc = "authed" \/ http[r].status = 200)
  /\ \A s \in SocketIds : sockets[s].afterLogout => sockets[s].st \notin {"authed", "joined"}

\* The order of the checks of one gate attempt: the blacklist is consulted
\* only after a verification, and access granted only after both
VerifyThenLookup(steps) ==
  /\ \A i \in 1..Len(steps) : steps[i] = "lookup" => \E j \in 1..(i - 1) : steps[j] = "verify"
  /\ \A i \in 1..Len(steps) : steps[i] = "grant" =>
       /\ \E j \in 1..(i - 1) : steps[j] = "verify"
       /\ \E j \in 1..(i - 1) : steps[j] = "lookup"

\* C7: every authenticated operation (a file served with ALLOW_PUBLIC_UPLOADS
\* is not one) verifies the credential first, then consults the revocation
\* store, then grants access
GateOrder ==
  /\ \A r \in ReqIds :
       ~(http[r].route = "/uploads" /\ allowPublicUploads) => VerifyThenLookup(http[r].steps)
  /\ \A s \in SocketIds : VerifyThenLookup(sockets[s].steps)

\* ---- claims: chat pipeline ----------------------------------------------
\* The ensure requests that were answered with a chat, and the pair asked for
Ensured == {r \in ReqIds : /\ http[r].route = "/chats/ensure"
                           /\ http[r].pc = "done"
                           /\ http[r].status = 200}
Pair(r) == {http[r].user, http[r].body.withUserId}

\* C8: two ensure requests for the same pair whose find and create steps
\* interleave leave one chat for the pair, and both answer with that chat
OneChatPerPair ==
  /\ \A i, j \in ChatIds : Participants(chats[i]) = Participants(chats[j]) => i = j
  /\ \A r1, r2 \in Ensured : Pair(r1) = Pair(r2) => http[r1].chat = http[r2].chat

\* C9: with the calls made one after the other, a call for a pair that was
\* ensured before, in either order, answers with the chat of the first call
\* and creates nothing, and a chat is created only when no chat of exactly
\* that pair is stored
EnsureIdempotentSymmetric ==
  /\ \A r1, r2 \in Ensured :
       (r1 < r2 /\ Pair(r1) = Pair(r2)) =>
         /\ http[r2].chat = http[r1].chat
         /\ ~http[r2].created
  /\ \A r \in Ensured :
       http[r].created =>
         /\ Participants(chats[http[r].chat]) = Pair(r)
         /\ \A i \in ChatIds : Participants(chats[i]) = Pair(r) => i = http[r].chat

\* A asks for the chat with B and it is created; B then asks for the chat
\* with A and gets the same one, the collection still holding one chat
WitnessEnsureIdempotentSymmetric ==
  \E r1, r2 \in Ensured :
    /\ r1 < r2
    /\ http[r1].created
    /\ http[r1].user # http[r2].user
    /\ http[r2].user = http[r1].body.withUserId
    /\ http[r2].body.withUserId = http[r1].user
    /\ http[r2].chat = http[r1].chat
    /\ Len(chats) = 1

\* The message events that sessions have received
Delivered ==
  {ev \in UNION {{inbox[s][k] : k \in 1..Len(inbox[s])} : s \in SocketIds} :
     ev.type \in {"message:new", "chat:updated"}}

\* C10: every message:new and chat:updated event a session has received
\* carries a message that is in the message store, with the chat, text and
\* creation time the event shows
DeliveredOnlyStored ==
  \A ev \in Delivered :
    /\ ev.message \in MessageIds
    /\ messages[ev.message].chatId = ev.chatId
    /\ messages[ev.message].text = ev.text
    /\ messages[ev.message].createdAt = ev.at

\* Both events of one stored message have reached a session of the receiver
\* and a session of the sender
WitnessDeliveredOnlyStored ==
  \E s1, s2 \in SocketIds, m \in MessageIds :
    /\ sockets[s1].user = messages[m].receiver
    /\ sockets[s2].user = messages[m].sender
    /\ s1 # s2
    /\ \A s \in {s1, s2} : \A t \in {"message:new", "chat:updated"} :
         \E k \in 1..Len(inbox[s]) : inbox[s][k].type = t /\ inbox[s][k].message = m

\* ---- claims: reading chats and messages ---------------------------------
\* The items of the chat lists whose summary has been read, as <<r, k>>
SummariesRead ==
  {x \in ReqIds \X (1..MaxChats) :
     /\ http[x[1]].route = "/chats"
     /\ x[2] \in 1..Len(http[x[1]].items)
     /\ http[x[1]].items[x[2]].pc \in {"unread", "ready"}}

\* What the readers of the chat list are shown: the summary of a chat is that
\* of the newest message the store held when it was read, and a summary that
\* shows a text has a stored message with that text
ReadersSeeWholeSends ==
  \A x \in SummariesRead :
    LET item == http[x[1]].items[x[2]]
        held == {i \in MessagesOf(item.chat) : i <= item.read}
    IN /\ held # {} =>
            \E i \in held : /\ item.lastMessage = messages[i].text
                            /\ item.lastMessageAt = messages[i].createdAt
                            /\ \A j \in held : messages[j].createdAt <= messages[i].createdAt
       /\ item.lastMessage # "" =>
            \E i \in MessagesOf(item.chat) : messages[i].text = item.lastMessage

\* The chats no POST /messages is working on
Settled == {c \in ChatIds : \A r \in ReqIds :
              ~(/\ http[r].route = "/messages"
                /\ http[r].body.chatId = c
                /\ http[r].pc \in {"authed", "updateChat"})}

\* C11: the effects of a send are all or nothing: readers are shown whole
\* sends only, and once the sends to a chat have ended, with 201 or with an
\* error, the chat's stored summary is that of its newest message, or empty
\* when it has no message
SendAllOrNothing ==
  /\ ReadersSeeWholeSends
  /\ \A c \in Settled :
       IF MessagesOf(c) = {} THEN chats[c].lastMessage = ""
       ELSE \E i \in LastMessages(c) : chats[c].lastMessage = messages[i].text

\* The positions in the inbox of session s of the message:new events of message m
NewAt(s, m) ==
  {k \in 1..Len(inbox[s]) : inbox[s][k].type = "message:new" /\ inbox[s][k].message = m}

\* C12: of two messages one sender submits to one chat, the request of the
\* first arriving first, the first is stored first and every session that
\* receives both receives message:new of the first before that of the second
SubmissionOrderKept ==
  \A r1, r2 \in ReqIds :
    (/\ r1 < r2
     /\ http[r1].route = "/messages" /\ http[r2].route = "/messages"
     /\ http[r1].user = http[r2].user
     /\ http[r1].body.chatId = http[r2].body.chatId
     /\ http[r1].message # 0 /\ http[r2].message # 0) =>
      /\ http[r1].message < http[r2].message
      /\ \A s \in SocketIds : \A k1 \in NewAt(s, http[r1].message) :
           \A k2 \in NewAt(s, http[r2].message) : k1 < k2

\* The requests to send a message that a send handler has taken up
SendsHandled ==
  {r \in ReqIds : /\ http[r].route \in {"/messages", "sendMessage"}
                  /\ http[r].pc \in {"updateChat", "done"}
                  /\ http[r].status # 401}

\* C13: a request to send a message whose text is missing or empty after
\* trimming is answered with the validation error 400 and changes nothing:
\* it creates no message, so that no stored message, no chat's lastMessage and
\* no emitted message event carries a blank text
BlankTextRejected ==
  /\ \A r \in SendsHandled :
       trim(http[r].body.text) = "" =>
         http[r].pc = "done" /\ http[r].status = 400 /\ http[r].message = 0
  /\ \A i \in MessageIds : trim(messages[i].text) # ""
  /\ \A c \in ChatIds : trim(chats[c].lastMessage) = "" => chats[c].lastMessage = ""
  /\ \A s \in SocketIds : \A k \in 1..Len(inbox[s]) :
       inbox[s][k].type \in {"message:new", "chat:updated", "newMessage"} =>
         trim(inbox[s][k].text) # ""

\* The places of box at which the event of type t for message m stands
EventsAt(box, t, m) == {k \in 1..Len(box) : box[k].type = t /\ box[k].message = m}

\* The step by which request r, a send by a participant of its chat, is
\* answered 201
SendSucceeds(r) ==
  /\ http[r].route = "/messages"
  /\ http[r].pc = "updateChat"
  /\ http'[r].pc = "done"
  /\ http'[r].status = 201
  /\ http[r].body.chatId \in ChatIds
  /\ http[r].user \in Participants(chats[http[r].body.chatId])

\* C14: when a send in chat C succeeds, every session joined to the room of
\* either participant of C receives exactly one message:new event for the
\* stored message and exactly one chat:updated event for C
FanOutToBothParticipants ==
  [][\A r \in ReqIds :
       SendSucceeds(r) =>
         \A u \in Participants(chats[http[r].body.chatId]) : \A s \in rooms[u] :
           \A t \in {"message:new", "chat:updated"} :
             /\ Cardinality(EventsAt(inbox'[s], t, http[r].message)) = 1
             /\ Cardinality(EventsAt(inbox[s], t, http[r].message)) = 0
             /\ inbox'[s][CHOOSE k \in EventsAt(inbox'[s], t, http[r].message) : TRUE].chatId
                  = http[r].body.chatId]_vars

\* The pages answered by GET /messages/:chatId
PagesAnswered ==
  {r \in ReqIds : http[r].route = ListRoute /\ http[r].pc = "done" /\ http[r].status = 200}

\* The message ids of the page answered to request r
PageOf(r) == {http[r].result[k] : k \in 1..Len(http[r].result)}

Ascending(page) ==
  \A k, l \in 1..Len(page) : k < l => messages[page[k]].createdAt <= messages[page[l]].createdAt

\* C15: a list of chat C without before that follows a successful send to C
\* is ascending by createdAt and ends with the message just sent, whatever
\* the history of C (messages of one createdAt, more messages than the limit)
NewMessageListedLast ==
  \A s \in ReqIds : \A r \in PagesAnswered :
    (/\ http[s].route = "/messages"
     /\ http[s].pc = "done"
     /\ http[s].status = 201
     /\ http[s].message = Len(messages)
     /\ http[r].body.chatId = http[s].body.chatId
     /\ http[r].body.before = NoBefore) =>
      /\ Ascending(http[r].result)
      /\ http[r].result # <<>>
      /\ http[r].result[Len(http[r].result)] = http[s].message

\* The paging has come to its end: a page was shorter than the limit
PagingDone ==
  \E r \in PagesAnswered : Len(http[r].result) < listLimit(http[r].body.limit)

\* C16: paging backwards with limit n, each before being the earliest
\* createdAt of the page before, gives pages of at most n messages, each
\* strictly older than the page before, without a repeated message, that
\* together hold every message of the chat
PagesCoverChat ==
  /\ \A r \in PagesAnswered :
       /\ Len(http[r].result) <= listLimit(http[r].body.limit)
       /\ Ascending(http[r].result)
       /\ \A k, l \in 1..Len(http[r].result) : k # l => http[r].result[k] # http[r].result[l]
       /\ http[r].body.before # NoBefore =>
            /\ r - 1 \in PagesAnswered
            /\ \A i \in PageOf(r) : \A j \in PageOf(r - 1) :
                 messages[i].createdAt < messages[j].createdAt
  /\ \A r1, r2 \in PagesAnswered : r1 # r2 => PageOf(r1) \cap PageOf(r2) = {}
  /\ PagingDone => UNION {PageOf(r) : r \in PagesAnswered} = MessagesOf(1)

\* ---- claims: seen flags ----------------------------------------------------
\* The step by which PUT /messages/:chatId/seen of request r is answered 200
MarkSeenAnswers(r) ==
  /\ http[r].route = SeenRoute
  /\ http[r].pc = "authed"
  /\ http'[r].pc = "done"
  /\ http'[r].status = 200

\* An earlier markSeen of the same user on the same chat was answered when
\* the store held the messages it holds now
MarkedBefore(r) ==
  \E r0 \in ReqIds :
    /\ http[r0].route = SeenRoute
    /\ http[r0].pc = "done"
    /\ http[r0].status = 200
    /\ http[r0].user = http[r].user
    /\ http[r0].body.chatId = http[r].body.chatId
    /\ http[r0].read = Len(messages)

\* C17: markSeen sets seen on exactly the unseen messages of the chat that
\* are addressed to the caller, leaves every other message as it is, answers
\* the number of messages it changed, and a second markSeen with no new
\* message in between answers 0 and changes nothing
MarkSeenExactIdempotent ==
  [][\A r \in ReqIds :
       MarkSeenAnswers(r) =>
         LET due == {i \in MessageIds : /\ messages[i].chatId = http[r].body.chatId
                                        /\ messages[i].receiver = http[r].user
                                        /\ ~messages[i].seen}
         IN /\ messages' = [i \in MessageIds |->
                              IF i \in due THEN [messages[i] EXCEPT !.seen = TRUE]
                              ELSE messages[i]]
            /\ http'[r].updated = Cardinality(due)
            /\ MarkedBefore(r) => http'[r].updated = 0 /\ messages' = messages]_vars

\* A markSeen that changed a message has been followed, with no message
\* created in between, by a markSeen of the same user on the same chat that
\* answered 0
WitnessMarkSeenExactIdempotent ==
  \E r1, r2 \in ReqIds :
    /\ r1 # r2
    /\ \A r \in {r1, r2} : http[r].route = SeenRoute /\ http[r].pc = "done" /\ http[r].status = 200
    /\ http[r1].user = http[r2].user
    /\ http[r1].body.chatId = http[r2].body.chatId
    /\ http[r1].read = Len(messages)
    /\ http[r1].updated >= 1
    /\ http[r2].updated = 0

\* C18: the seen flag of a stored message goes from false to true only, and
\* only in the step by which a markSeen of the message's receiver on the
\* message's chat is answered; no other field of a stored message changes
\* and no message is removed
SeenOnlyByReceiver ==
  [][/\ Len(messages') >= Len(messages)
     /\ \A i \in MessageIds :
          /\ messages[i].seen => messages'[i].seen
          /\ [messages'[i] EXCEPT !.seen = FALSE] = [messages[i] EXCEPT !.seen = FALSE]
          /\ (messages'[i].seen /\ ~messages[i].seen) =>
               \E r \in ReqIds : /\ MarkSeenAnswers(r)
                                 /\ http[r].user = messages[i].receiver
                                 /\ http[r].body.chatId = messages[i].chatId]_vars

\* A message has been marked seen by its receiver after its sender's markSeen
\* left it unseen, and a list of the chat has been answered since it was seen
WitnessSeenOnlyByReceiver ==
  \E i \in MessageIds : \E r1, r2, r3 \in ReqIds :
    /\ messages[i].seen
    /\ http[r1].route = SeenRoute /\ http[r1].status = 200
    /\ http[r1].user = messages[i].sender /\ http[r1].updated = 0
    /\ http[r2].route = SeenRoute /\ http[r2].status = 200
    /\ http[r2].user = messages[i].receiver /\ http[r2].updated >= 1
    /\ r1 < r2
    /\ http[r3].route \in {ListRoute, "/chats"} /\ http[r3].status = 200
    /\ r2 < r3

\* The chat lists answered by GET /chats
ChatListsAnswered ==
  {r \in ReqIds : http[r].route = "/chats" /\ http[r].pc = "done" /\ http[r].status = 200}

\* C19: a chat list answered to a user holds exactly the chats the user is a
\* participant of, each once, in descending order of the lastMessageAt it
\* shows, each with unread = the number of unseen messages of the chat that
\* are addressed to the user (the user's own messages are not counted)
ChatsListedByActivity ==
  \A r \in ChatListsAnswered :
    LET items == http[r].items IN
    /\ {items[k].chat : k \in 1..Len(items)}
         = {c \in ChatIds : http[r].user \in Participants(chats[c])}
    /\ \A k, l \in 1..Len(items) :
         k < l => /\ items[k].chat # items[l].chat
                  /\ items[k].lastMessageAt >= items[l].lastMessageAt
    /\ \A k \in 1..Len(items) :
         items[k].unread
           = Cardinality({i \in MessageIds : /\ messages[i].chatId = items[k].chat
                                             /\ messages[i].receiver = http[r].user
                                             /\ ~messages[i].seen})

\* ---- claims: presence broadcasts -------------------------------------------
\* The presence:update events socket s has received, oldest first
PresenceSeen(s) == SelectSeq(inbox[s], LAMBDA ev : ev.type = "presence:update")

\* The last presence:update of every connected session shows the online set
LastPresenceIsOnlineSet ==
  \A s \in Connected :
    /\ PresenceSeen(s) # <<>>
    /\ PresenceSeen(s)[Len(PresenceSeen(s))].ids = Keys(onlineUsers)

\* A step that changes the presence map sends every session connected after
\* it one presence:update that shows the online set after the step
PresenceStepBroadcasts ==
  onlineUsers' # onlineUsers =>
    \A s \in SocketIds :
      sockets'[s].st = "joined" =>
        inbox'[s] = Append(inbox[s], [type |-> "presence:update", ids |-> Keys(onlineUsers')])

\* C20: every join and every disconnect is followed by a presence:update to
\* all connected sessions that carries exactly the set of online users at
\* that moment, so that the last presence:update a connected session has
\* received is the current online set
PresenceLastWins == [](LastPresenceIsOnlineSet) /\ [][PresenceStepBroadcasts]_vars

\* A connected session has seen the online set grow and then shrink again
\* when another user's only session disconnected
WitnessPresenceLastWins ==
  \E s, s2 \in SocketIds :
    /\ s \in Connected
    /\ sockets[s2].st = "closed"
    /\ sockets[s2].user \notin {NoUser, sockets[s].user}
    /\ Len(PresenceSeen(s)) >= 3
    /\ LET p == PresenceSeen(s) IN
       /\ sockets[s2].user \in p[Len(p) - 1].ids
       /\ sockets[s2].user \notin p[Len(p)].ids
       /\ p[Len(p)].ids = Keys(onlineUsers)

\* ---- claims: typing, handshakes, errors ------------------------------------
\* The events socket s gains by the step
Gained(s) == SubSeq(inbox'[s], Len(inbox[s]) + 1, Len(inbox'[s]))

\* C21: a typing event reaches a session only in a step in which that session
\* is joined to the room of the user the event is addressed to, and then
\* every session of that room gets it once; it carries as from the user of
\* the joined socket that sent it, and the step changes no stored chat or
\* message, no presence entry and no room. A session that joins the room
\* later does not get the event
TypingOnlyToRoom ==
  [][\A s \in SocketIds : \A k \in 1..Len(Gained(s)) :
       Gained(s)[k].type = "typing" =>
         LET ev == Gained(s)[k] IN
         /\ Len(inbox'[s]) = Len(inbox[s]) + 1
         /\ ev.to \in Users
         /\ s \in rooms[ev.to]
         /\ sockets[s].st = "joined" /\ sockets[s].user = ev.to
         /\ \A s2 \in SocketIds :
              inbox'[s2] = IF s2 \in rooms[ev.to] THEN Append(inbox[s2], ev) ELSE inbox[s2]
         /\ sockets[ev.sock].st = "joined"
         /\ ev.from = sockets[ev.sock].user
         /\ UNCHANGED <<chats, messages, onlineUsers, rooms, sockets, storeVars>>]_vars

\* A session of user T has received a typing event of another user's
\* session, and a second session of T that joined afterwards has none
WitnessTypingOnlyToRoom ==
  \E s1, s2 \in SocketIds :
    /\ s1 # s2
    /\ sockets[s1].st = "joined" /\ sockets[s2].st = "joined"
    /\ sockets[s1].user = sockets[s2].user
    /\ \E k \in 1..Len(inbox[s1]) :
         /\ inbox[s1][k].type = "typing"
         /\ inbox[s1][k].from # sockets[s1].user
    /\ \A k \in 1..Len(inbox[s2]) : inbox[s2][k].type # "typing"

\* The sessions in the presence map or in a room
Present ==
  {s \in SocketIds : \/ \E u \in Keys(onlineUsers) : s \in onlineUsers[u]
                     \/ \E u \in Users : s \in rooms[u]}

\* Every session in presence or in a room is joined after a handshake whose
\* blacklist lookup answered "not blacklisted" and whose verification passed;
\* a handshake that is suspended or has failed has received no event
OnlyAuthenticatedPresent ==
  /\ \A s \in Present :
       /\ sockets[s].st = "joined"
       /\ sockets[s].steps = <<"lookup", "verify", "grant">>
       /\ sockets[s].black = "nil"
       /\ sockets[s].user # NoUser
       /\ Has(issued, sockets[s].tok) /\ issued[sockets[s].tok].sub = sockets[s].user
  /\ \A s \in SocketIds :
       sockets[s].st \in {"free", "authWait", "rejected"} => s \notin Present /\ inbox[s] = <<>>

\* A step that suspends a handshake, resumes it or fails it sends no event
HandshakeStepSilent ==
  (\E s \in SocketIds : /\ sockets'[s] # sockets[s]
                        /\ sockets'[s].st \in {"authWait", "rejected", "authed"}) =>
    UNCHANGED <<inbox, rooms, onlineUsers>>

\* C22: a session is in the presence map or in a room only after both the
\* blacklist lookup and the verification of its handshake have passed; while
\* the handshake is suspended on the lookup, and after it has failed, the
\* session is in neither and no presence:update is sent on its account
NoPresenceBeforeAuthenticated == [](OnlyAuthenticatedPresent) /\ [][HandshakeStepSilent]_vars

\* One session was joined while another handshake was suspended on the Redis
\* lookup, and that handshake has failed since
WitnessNoPresenceBeforeAuthenticated ==
  \E s1, s2 \in SocketIds :
    /\ s1 \in Present
    /\ sockets[s2].st = "rejected"
    /\ sockets[s2].steps # <<>>
    /\ useRedis

\* The step by which auth answers request r with 401
AuthRejects(r) ==
  /\ http[r].pc \in {"free", "authWait"}
  /\ http'[r].pc = "done"
  /\ http'[r].status = 401
  /\ http'[r].route \in ProtectedRoutes

\* Is token on the blacklist the code consults
Blacklisted(token) == IF useRedis THEN redisGet(token) = "1" ELSE memLookup(token) = "1"

\* C23: auth rejects with one of three answers, and which one is decided by
\* the credential and the blacklist alone: "Missing token" exactly when no
\* credential is presented, "Invalid or expired token" exactly when the
\* credential fails its verification, "Token revoked" exactly when the
\* credential passes verification and is blacklisted
ThreeUnauthorizedOutcomes ==
  [][\A r \in ReqIds :
       AuthRejects(r) =>
         LET t == http'[r].tok IN
         /\ http'[r].msg \in {"Missing token", "Invalid or expired token", "Token revoked"}
         /\ http'[r].msg = "Missing token" <=> t = NoToken
         /\ http'[r].msg = "Invalid or expired token" <=> (t # NoToken /\ ~verifyOk(t))
         /\ http'[r].msg = "Token revoked" <=> (verifyOk(t) /\ Blacklisted(t))]_vars

\* C24: a send whose chatId names no stored chat is answered with the
\* not-found error 404, stores no message and emits no event: a request for
\* an unknown chat that passes the validation of its body, the store
\* answering, gets no other answer, and no stored message and no delivered
\* event names an unknown chat
UnknownChatNotFound ==
  /\ \A r \in SendsHandled :
       (/\ http[r].route = "/messages"
        /\ http[r].body.chatId \notin ChatIds
        /\ http[r].status \notin {400, 500}) =>
         http[r].pc = "done" /\ http[r].status = 404 /\ http[r].message = 0
  /\ \A i \in MessageIds : messages[i].chatId \in ChatIds
  /\ \A ev \in Delivered : ev.chatId \in ChatIds

\* C25: every stored chat has exactly two participants, and they differ,
\* whatever withUserId the ensure requests carry; and a request to ensure
\* the chat of a user with that same user is never answered with a chat of
\* the user and somebody else
TwoDistinctParticipants ==
  /\ \A c \in ChatIds : /\ Len(chats[c].participants) = 2
                        /\ Cardinality(Participants(chats[c])) = 2
  /\ \A r \in ReqIds :
       (/\ http[r].route = "/chats/ensure"
        /\ http[r].pc = "done"
        /\ http[r].status = 200
        /\ http[r].body.withUserId = http[r].user) =>
         Participants(chats[http[r].chat]) = {http[r].user}

\* Is session s in the presence map, in a room, as the maps m and rm have it
InPresence(m, s) == \E u \in Keys(m) : s \in m[u]
InRoom(rm, s) == \E u \in Users : s \in rm[u]

\* C26: whatever payload a client sends with an event, the handler's failure
\* does not end the process, and a step leaves the presence entry and the
\* room of every session it does not act on as they were
HandlerFailureIsolated ==
  [][/\ ~crashed'
     /\ \A s \in SocketIds :
          sockets'[s] = sockets[s] =>
            /\ InPresence(onlineUsers', s) = InPresence(onlineUsers, s)
            /\ InRoom(rooms', s) = InRoom(rooms, s)]_vars

\* C27: logout answers success for a presented credential only when the
\* revocation entry of that credential has been written to the store the
\* gates consult; a write that fails is reported to the caller instead
LogoutConfirmsRevocation ==
  [][\A t \in TokenIds :
       (/\ Has(loggedOut', t)
        /\ ~Has(loggedOut, t) \/ loggedOut'[t] # loggedOut[t]) =>
         IF useRedis THEN Has(redis', t) /\ redis'[t] = loggedOut'[t].until
         ELSE Has(inMemoryBlacklist', t) /\ inMemoryBlacklist'[t] = loggedOut'[t].until]_vars

\* ---- claims: frame of logout and of sends -----------------------------------
\* The sessions that are joined before and after the step although a logout
\* was answered for their token
StillJoinedRevoked ==
  {s \in SocketIds : /\ sockets[s].st = "joined"
                     /\ sockets'[s].st = "joined"
                     /\ Has(loggedOut, sockets[s].tok)}

\* Does socket s gain an event of type t about message m by the step
Gains(s, t, m) ==
  \E k \in 1..Len(Gained(s)) : Gained(s)[k].type = t /\ Gained(s)[k].message = m

\* C28: a logout changes the revocation store only, leaving the sockets, the
\* rooms, the presence map and what the sessions have received as they are;
\* and a session that joined before the logout of its token stays in its
\* room and in the presence map and goes on receiving every presence:update,
\* every typing event sent to its user and message:new and chat:updated of
\* every send to or by its user, until it disconnects
LogoutLeavesSessions ==
  [][/\ loggedOut' # loggedOut =>
          UNCHANGED <<sockets, rooms, onlineUsers, inbox, chats, messages>>
     /\ \A s \in StillJoinedRevoked :
          LET u == sockets[s].user IN
          /\ s \in rooms'[u]
          /\ Has(onlineUsers', u) /\ s \in onlineUsers'[u]
          /\ onlineUsers' # onlineUsers =>
               inbox'[s] = Append(inbox[s], [type |-> "presence:update",
                                              ids |-> Keys(onlineUsers')])
          /\ \A s2 \in SocketIds : \A k \in 1..Len(Gained(s2)) :
               (Gained(s2)[k].type = "typing" /\ Gained(s2)[k].to = u) =>
                 Gained(s) = <<Gained(s2)[k]>>
          /\ \A r \in ReqIds :
               (/\ http[r].route = "/messages"
                /\ http[r].pc = "updateChat"
                /\ http'[r].status = 201
                /\ u \in {http[r].user, http[r].body.receiver}) =>
                 /\ Gains(s, "message:new", http[r].message)
                 /\ Gains(s, "chat:updated", http[r].message)]_vars

\* A session of user 1 is joined and online although the token it joined
\* with has been logged out: a request with that token was refused as
\* revoked, and the session has received the events of a message that was
\* sent by a later request
WitnessLogoutLeavesSessions ==
  \E s \in SocketIds : \E r1, r2 \in ReqIds :
    /\ sockets[s].st = "joined"
    /\ Has(loggedOut, sockets[s].tok)
    /\ s \in rooms[sockets[s].user]
    /\ Has(onlineUsers, sockets[s].user)
    /\ http[r1].tok = sockets[s].tok /\ http[r1].msg = "Token revoked"
    /\ r1 < r2
    /\ http[r2].status = 201
    /\ \A t \in {"message:new", "chat:updated"} :
         \E k \in 1..Len(inbox[s]) : inbox[s][k].type = t /\ inbox[s][k].message = http[r2].message

\* C29: the sender and the receiver of every message stored for a chat are
\* the two participants of that chat, and message:new and chat:updated events
\* about a chat are delivered to sessions of its participants only
MessagesBetweenParticipants ==
  /\ \A i \in MessageIds :
       messages[i].chatId \in ChatIds =>
         {messages[i].sender, messages[i].receiver} = Participants(chats[messages[i].chatId])
  /\ \A s \in SocketIds : \A k \in 1..Len(inbox[s]) :
       (/\ inbox[s][k].type \in {"message:new", "chat:updated"}
        /\ inbox[s][k].chatId \in ChatIds) =>
         sockets[s].user \in Participants(chats[inbox[s][k].chatId])

\* The gate attempts, of requests and of handshakes, that have got their answer
Answered ==
  {x \in Looked : x.pc \in {"authed", "done"}}
    \cup {x \in SockLooked : x.st \in {"authed", "joined", "rejected", "closed"}}

Granted(x) == x.steps = <<"lookup", "verify", "grant">>

\* A token for which no logout was answered is not reported as blacklisted,
\* and passes every gate whose lookup was answered, whatever was revoked
OthersKeepAuthenticating ==
  \A x \in Answered :
    (~x.afterLogout /\ Has(issued, x.tok)) =>
      /\ x.black # "1"
      /\ x.black = "nil" => Granted(x)

\* The step that answers a logout leaves the blacklist entry of every other
\* token as it is
LogoutTouchesOneToken ==
  \A c \in TokenIds :
    (Has(loggedOut', c) /\ (~Has(loggedOut, c) \/ loggedOut'[c] # loggedOut[c])) =>
      \A t \in (TokenIds \cup {Forged}) \ {c} :
        /\ Has(inMemoryBlacklist', t) = Has(inMemoryBlacklist, t)
        /\ Has(inMemoryBlacklist, t) => inMemoryBlacklist'[t] = inMemoryBlacklist[t]
        /\ Has(redis', t) = Has(redis, t)
        /\ Has(redis, t) => redis'[t] = redis[t]
        /\ Has(loggedOut', t) = Has(loggedOut, t)

\* C30: revoking one credential leaves the revocation status of every other
\* credential unchanged, also of the other credentials of the same user, and
\* those go on passing auth and the handshake
RevocationPerCredential == [](OthersKeepAuthenticating) /\ [][LogoutTouchesOneToken]_vars

\* User 1 holds two tokens; a request with the first was refused as revoked,
\* a later request with the second passed auth, and a handshake with the
\* second has joined
WitnessRevocationPerCredential ==
  \E r1, r2 \in ReqIds : \E s \in SocketIds :
    /\ r1 < r2
    /\ http[r1].msg = "Token revoked"
    /\ http[r2].pc = "authed"
    /\ http[r2].tok # http[r1].tok
    /\ ~Has(loggedOut, http[r2].tok)
    /\ issued[http[r2].tok].sub = issued[http[r1].tok].sub
    /\ sockets[s].st = "joined"
    /\ sockets[s].tok = http[r2].tok

============================================================================
